---- MODULE Spec2Model ----
(***************************************************************************)
(* Shortcut persistence (ShortcutDataStore) and modal session tracking     *)
(* (ModalState) of the ODS shell, modelled as state machines.              *)
(*                                                                         *)
(* JavaScript values are records [t, b, n, s]: t is the type tag, and b, n *)
(* or s carries the boolean, the integer or the string (a sequence of      *)
(* one-character strings).                                                 *)
(***************************************************************************)
EXTENDS Integers, Sequences, FiniteSets, TLC

VARIABLES stored, cache, lastOp, ops,
          activeModalId, activeModuleId, openedAt, previousModalId,
          isTransitioning, modalOp, now,
          probe, cacheB, tab, theme, coll, sys

storeVars == <<stored, cache, lastOp, ops>>
modalVars == <<activeModalId, activeModuleId, openedAt, previousModalId,
               isTransitioning, modalOp>>
\* the state of the other components
auxVars == <<probe, cacheB, tab, theme, coll, sys>>
vars == <<stored, cache, lastOp, ops, activeModalId, activeModuleId, openedAt,
          previousModalId, isTransitioning, modalOp, now, auxVars>>

(***************************************************************************)
(* Bounds of the model.                                                    *)
(***************************************************************************)
\* longest array handed to save or importData
MaxLen == 2
\* number of store operations in a run
MaxOps == 2
\* number of modals registered with the modal system in a run
MaxModals == 2
\* last value of the clock
MaxTime == 2
\* longest title over three characters handed to generateDefaultLabel
MaxTitleLen == 4

(***************************************************************************)
(* JavaScript values.                                                      *)
(***************************************************************************)
Undef == [t |-> "undefined", b |-> FALSE, n |-> 0, s |-> <<>>]
Null == [t |-> "null", b |-> FALSE, n |-> 0, s |-> <<>>]
NaN == [t |-> "nan", b |-> FALSE, n |-> 0, s |-> <<>>]
B(x) == [t |-> "boolean", b |-> x, n |-> 0, s |-> <<>>]
N(x) == [t |-> "number", b |-> FALSE, n |-> x, s |-> <<>>]
S(x) == [t |-> "string", b |-> FALSE, n |-> 0, s |-> x]

\* ToBoolean: the truthiness that !, || and Boolean() use.
Truthy(v) ==
  CASE v.t = "boolean" -> v.b
    [] v.t = "number" -> v.n # 0
    [] v.t = "string" -> v.s # <<>>
    [] OTHER -> FALSE

\* a || b
OrElse(a, b) == IF Truthy(a) THEN a ELSE b

(***************************************************************************)
(* Strings.                                                                *)
(***************************************************************************)
IsSpace(c) == c = " "

RECURSIVE TrimStart(_)
TrimStart(s) ==
  IF s # <<>> /\ IsSpace(Head(s)) THEN TrimStart(Tail(s)) ELSE s

RECURSIVE TrimEnd(_)
TrimEnd(s) ==
  IF s # <<>> /\ IsSpace(s[Len(s)]) THEN TrimEnd(SubSeq(s, 1, Len(s) - 1))
  ELSE s

\* String.prototype.trim
Trim(s) == TrimEnd(TrimStart(s))

\* String.prototype.substring(0, k)
Substring0(s, k) == IF Len(s) > k THEN SubSeq(s, 1, k) ELSE s

UpperOf == [a |-> "A", b |-> "B", c |-> "C", d |-> "D", e |-> "E",
            f |-> "F", g |-> "G", h |-> "H", i |-> "I", j |-> "J",
            k |-> "K", l |-> "L", m |-> "M", n |-> "N", o |-> "O",
            p |-> "P", q |-> "Q", r |-> "R", s |-> "S", t |-> "T",
            u |-> "U", v |-> "V", w |-> "W", x |-> "X", y |-> "Y",
            z |-> "Z"]

\* String.prototype.toUpperCase
ToUpperCase(s) ==
  [i \in 1..Len(s) |-> IF s[i] \in DOMAIN UpperOf THEN UpperOf[s[i]] ELSE s[i]]

DigitChars == <<"0", "1", "2", "3", "4", "5", "6", "7", "8", "9">>

RECURSIVE NatStr(_)
NatStr(n) ==
  IF n < 10 THEN <<DigitChars[n + 1]>>
  ELSE NatStr(n \div 10) \o <<DigitChars[(n % 10) + 1]>>

\* String(v) and template-literal interpolation
ToStr(v) ==
  CASE v.t = "string" -> v.s
    [] v.t = "number" -> IF v.n < 0 THEN <<"-">> \o NatStr(0 - v.n) ELSE NatStr(v.n)
    [] v.t = "boolean" -> IF v.b THEN <<"t", "r", "u", "e">>
                          ELSE <<"f", "a", "l", "s", "e">>
    [] v.t = "null" -> <<"n", "u", "l", "l">>
    [] v.t = "nan" -> <<"N", "a", "N">>
    [] OTHER -> <<"u", "n", "d", "e", "f", "i", "n", "e", "d">>

DigitValue(c) == CHOOSE d \in 0..9 : DigitChars[d + 1] = c

RECURSIVE DigitsValue(_)
DigitsValue(s) ==
  IF s = <<>> THEN 0
  ELSE 10 * DigitsValue(SubSeq(s, 1, Len(s) - 1)) + DigitValue(s[Len(s)])

IsDigits(s) == \A i \in 1..Len(s) : \E d \in 1..10 : DigitChars[d] = s[i]

\* Number(v)
ToNumber(v) ==
  CASE v.t = "number" -> v
    [] v.t = "boolean" -> IF v.b THEN N(1) ELSE N(0)
    [] v.t = "null" -> N(0)
    [] v.t = "string" ->
         LET tr == Trim(v.s) IN
         IF tr = <<>> THEN N(0)
         ELSE IF IsDigits(tr) THEN N(DigitsValue(tr))
         ELSE IF Head(tr) = "-" /\ Len(tr) > 1 /\ IsDigits(Tail(tr))
              THEN N(0 - DigitsValue(Tail(tr)))
         ELSE NaN
    [] OTHER -> NaN

\* String.prototype.split(/\s+/), applied to a trimmed string
RECURSIVE SplitWords(_, _)
SplitWords(s, word) ==
  IF s = <<>> THEN <<word>>
  ELSE IF IsSpace(Head(s))
       THEN <<word>> \o SplitWords(TrimStart(s), <<>>)
  ELSE SplitWords(Tail(s), Append(word, Head(s)))

\* words.map(w => w[0]).join('')
RECURSIVE FirstLetters(_)
FirstLetters(words) ==
  IF words = <<>> THEN <<>>
  ELSE (IF Head(words) = <<>> THEN <<>> ELSE <<Head(Head(words))>>)
       \o FirstLetters(Tail(words))

XX == <<"X", "X">>
ShortcutPrefix == <<"s", "h", "o", "r", "t", "c", "u", "t", "-">>
ModalType == <<"m", "o", "d", "a", "l">>
MaxLabelLen == 20
MaxDefaultLabelLen == 3

\* new Date(now).toISOString(), abbreviated to a "T" and the clock value
ToISOString(t) == S(<<"T">> \o NatStr(t))

(***************************************************************************)
(* Entries of a shortcuts array.  kind tells an object from null and from  *)
(* a primitive; action.present tells whether the entry has an action       *)
(* object.  A property the entry does not have is Undef.                   *)
(***************************************************************************)
Obj(id, label, enabled, type, target, position, visible, created, updated) ==
  [kind |-> "object", id |-> id, label |-> label, enabled |-> enabled,
   action |-> [present |-> TRUE, type |-> type, target |-> target],
   position |-> position, visible |-> visible,
   created_at |-> created, updated_at |-> updated]

NoAction == [present |-> FALSE, type |-> Undef, target |-> Undef]

NonRecord(kind) ==
  [kind |-> kind, id |-> Undef, label |-> Undef, enabled |-> Undef,
   action |-> NoAction, position |-> Undef, visible |-> Undef,
   created_at |-> Undef, updated_at |-> Undef]

\* a JavaScript value handed to save: an array of entries, or something else
ArrayOf(items) == [isArray |-> TRUE, items |-> items]
NotAnArray == [isArray |-> FALSE, items |-> <<>>]

\* s.action?.target
TargetOf(s) == IF s.action.present THEN s.action.target ELSE Undef

(***************************************************************************)
(* ShortcutDataStore: the pure helpers.                                    *)
(***************************************************************************)
validateLabel_NoTruncate(label) ==
  IF ~Truthy(label) THEN XX
  ELSE LET cleaned == Trim(ToStr(label)) IN
       IF cleaned = <<>> THEN XX ELSE cleaned

validateLabel_NoTrim(label) ==
  IF ~Truthy(label) THEN XX
  ELSE Substring0(ToStr(label), MaxLabelLen)

validateLabel(label) ==
  IF ~Truthy(label) THEN XX
  ELSE LET cleaned == Trim(ToStr(label)) IN
       IF cleaned = <<>> THEN XX
       ELSE IF Len(cleaned) > MaxLabelLen THEN Substring0(cleaned, MaxLabelLen)
       ELSE cleaned

generateDefaultLabel_NoUpperCase(title) ==
  IF ~Truthy(title) THEN XX
  ELSE LET words == SplitWords(Trim(title.s), <<>>)
           letters == FirstLetters(words)
           short == Substring0(letters, MaxDefaultLabelLen)
       IN IF short = <<>> THEN XX ELSE short

generateDefaultLabel(title) ==
  IF ~Truthy(title) THEN XX
  ELSE LET words == SplitWords(Trim(title.s), <<>>)
           letters == ToUpperCase(FirstLetters(words))
           short == Substring0(letters, MaxDefaultLabelLen)
       IN IF short = <<>> THEN XX ELSE short

IsRecord_AnyObject(s) == s.kind = "object"

\* the filter of validateShortcuts
IsRecord(s) == s.kind = "object" /\ Truthy(TargetOf(s))

Repair_AlwaysVisible(s, t) ==
  [kind |-> "object",
   id |-> OrElse(s.id, S(ShortcutPrefix \o ToStr(s.action.target))),
   label |-> S(validateLabel(s.label)),
   enabled |-> B(Truthy(s.enabled)),
   action |-> [present |-> TRUE,
               type |-> OrElse(s.action.type, S(ModalType)),
               target |-> s.action.target],
   position |-> OrElse(ToNumber(s.position), N(0)),
   visible |-> B(TRUE),
   created_at |-> OrElse(s.created_at, ToISOString(t)),
   updated_at |-> OrElse(s.updated_at, ToISOString(t))]

\* the map of validateShortcuts
Repair(s, t) ==
  [kind |-> "object",
   id |-> OrElse(s.id, S(ShortcutPrefix \o ToStr(s.action.target))),
   label |-> S(validateLabel(s.label)),
   enabled |-> B(Truthy(s.enabled)),
   action |-> [present |-> TRUE,
               type |-> OrElse(s.action.type, S(ModalType)),
               target |-> s.action.target],
   position |-> OrElse(ToNumber(s.position), N(0)),
   visible |-> B(s.visible # B(FALSE)),
   created_at |-> OrElse(s.created_at, ToISOString(t)),
   updated_at |-> OrElse(s.updated_at, ToISOString(t))]

validateShortcuts(shortcuts, t) ==
  IF ~shortcuts.isArray THEN <<>>
  ELSE LET kept == SelectSeq(shortcuts.items, IsRecord)
       IN [i \in 1..Len(kept) |-> Repair(kept[i], t)]

\* Array.prototype.sort((a, b) => a.position - b.position): stable
RECURSIVE InsertByPosition(_, _)
InsertByPosition(sorted, x) ==
  IF sorted = <<>> THEN <<x>>
  ELSE IF sorted[Len(sorted)].position.n <= x.position.n THEN Append(sorted, x)
  ELSE Append(InsertByPosition(SubSeq(sorted, 1, Len(sorted) - 1), x),
              sorted[Len(sorted)])

RECURSIVE SortByPosition(_)
SortByPosition(a) ==
  IF a = <<>> THEN <<>>
  ELSE InsertByPosition(SortByPosition(SubSeq(a, 1, Len(a) - 1)), a[Len(a)])

reindexPositions_NoSort(shortcuts) ==
  [i \in 1..Len(shortcuts) |-> [shortcuts[i] EXCEPT !.position = N(i - 1)]]

reindexPositions(shortcuts) ==
  LET sorted == SortByPosition(shortcuts)
  IN [i \in 1..Len(sorted) |-> [sorted[i] EXCEPT !.position = N(i - 1)]]

(***************************************************************************)
(* localStorage holds one item: nothing, a text that is not JSON, a JSON   *)
(* text of something that is not an array, or a JSON text of an array.     *)
(***************************************************************************)
Missing == [kind |-> "missing", items |-> <<>>]
Garbage == [kind |-> "garbage", items |-> <<>>]
NonArrayText == [kind |-> "nonarray", items |-> <<>>]

\* JSON.stringify of a property value: NaN becomes null, undefined is omitted
JsonValue(v) == IF v.t = "nan" THEN Null ELSE v

JsonEntry(s) ==
  IF s.kind # "object" THEN NonRecord(IF s.kind = "undefined" THEN "null" ELSE s.kind)
  ELSE [kind |-> "object", id |-> JsonValue(s.id), label |-> JsonValue(s.label),
        enabled |-> JsonValue(s.enabled),
        action |-> [present |-> s.action.present,
                    type |-> JsonValue(s.action.type),
                    target |-> JsonValue(s.action.target)],
        position |-> JsonValue(s.position), visible |-> JsonValue(s.visible),
        created_at |-> JsonValue(s.created_at),
        updated_at |-> JsonValue(s.updated_at)]

JSONstringify(value) ==
  IF value.isArray
  THEN [kind |-> "array", items |-> [i \in 1..Len(value.items) |-> JsonEntry(value.items[i])]]
  ELSE NonArrayText

\* JSON.parse of a text that is JSON
JSONparse(text) ==
  IF text.kind = "array" THEN ArrayOf(text.items) ELSE NotAnArray

(***************************************************************************)
(* ShortcutDataStore: the methods, as functions of the store's state       *)
(*   st = [stored, cache, emitted, writes]                                 *)
(* where emitted lists the shortcuts-updated events of the running call,    *)
(* each with its detail and with the cache and the stored item that a      *)
(* listener finds when it runs, and writes counts the call's               *)
(* localStorage.setItem calls.  writeOk tells whether localStorage accepts *)
(* writes during the call, and t is the time of the call.  A method yields *)
(*   [st, ret, threw, saved, arg, saveIn]                                  *)
(* saved: its save persisted; arg: the value that save was given; saveIn:  *)
(* the validated sequence that save sorted.                                *)
(***************************************************************************)
CacheNull == [isNull |-> TRUE, items |-> <<>>]
CacheOf(items) == [isNull |-> FALSE, items |-> items]

Returned(st, ret) ==
  [st |-> st, ret |-> ret, threw |-> FALSE, saved |-> FALSE,
   arg |-> NotAnArray, saveIn |-> <<>>]

Thrown(st) ==
  [st |-> st, ret |-> FALSE, threw |-> TRUE, saved |-> FALSE,
   arg |-> NotAnArray, saveIn |-> <<>>]

\* document.dispatchEvent runs the listeners before it returns
dispatchChangeEvent(st, shortcuts, t) ==
  [st EXCEPT !.emitted = Append(@, [shortcuts |-> shortcuts, timestamp |-> t,
                                    cache |-> st.cache, stored |-> st.stored])]

save_EmitFirst(st, shortcuts, writeOk, t) ==
  LET validated == validateShortcuts(shortcuts, t)
      reindexed == reindexPositions(validated)
      told == dispatchChangeEvent(st, reindexed, t)
  IN IF writeOk
     THEN [st |-> [told EXCEPT !.stored = JSONstringify(ArrayOf(reindexed)),
                               !.cache = CacheOf(reindexed),
                               !.writes = @ + 1],
           ret |-> TRUE, threw |-> FALSE, saved |-> TRUE,
           arg |-> shortcuts, saveIn |-> validated]
     ELSE Returned([st EXCEPT !.writes = @ + 1], FALSE)

save(st, shortcuts, writeOk, t) ==
  LET validated == validateShortcuts(shortcuts, t)
      reindexed == reindexPositions(validated)
      written == [st EXCEPT !.stored = JSONstringify(ArrayOf(reindexed)),
                            !.writes = @ + 1]
      cached == [written EXCEPT !.cache = CacheOf(reindexed)]
  IN IF writeOk
     THEN [st |-> dispatchChangeEvent(cached, reindexed, t),
           ret |-> TRUE, threw |-> FALSE, saved |-> TRUE,
           arg |-> shortcuts, saveIn |-> validated]
     ELSE Returned([st EXCEPT !.writes = @ + 1], FALSE)

load_NoRepersist(st, writeOk, t) ==
  IF ~st.cache.isNull THEN st
  ELSE IF st.stored.kind \in {"missing", "garbage"}
       THEN [st EXCEPT !.cache = CacheOf(<<>>)]
  ELSE LET parsed == JSONparse(st.stored)
           shortcuts == IF parsed.isArray THEN parsed ELSE ArrayOf(<<>>)
       IN [st EXCEPT !.cache = CacheOf(validateShortcuts(shortcuts, t))]

load(st, writeOk, t) ==
  IF ~st.cache.isNull THEN st
  ELSE IF st.stored.kind = "missing"
       THEN [st EXCEPT !.cache = CacheOf(<<>>)]
  ELSE IF st.stored.kind = "garbage"
       THEN save([st EXCEPT !.cache = CacheOf(<<>>)], ArrayOf(<<>>), writeOk, t).st
  ELSE LET parsed == JSONparse(st.stored)
           shortcuts == IF parsed.isArray THEN parsed ELSE ArrayOf(<<>>)
       IN [st EXCEPT !.cache = CacheOf(validateShortcuts(shortcuts, t))]

FindIndex_ById(shortcuts, modalId) ==
  LET hits == {i \in 1..Len(shortcuts) : shortcuts[i].id = modalId}
  IN IF hits = {} THEN 0 ELSE CHOOSE i \in hits : \A j \in hits : i <= j

\* shortcuts.findIndex(s => s.action?.target === modalId), from 1; 0 if none
FindIndex(shortcuts, modalId) ==
  LET hits == {i \in 1..Len(shortcuts) : TargetOf(shortcuts[i]) = modalId}
  IN IF hits = {} THEN 0 ELSE CHOOSE i \in hits : \A j \in hits : i <= j

\* x.trim() of something that is not a string is a TypeError
TrimThrows(v) == Truthy(v) /\ v.t # "string"

toggle(st, modalId, enabled, modalTitle, writeOk, t) ==
  LET st1 == load(st, writeOk, t)
      shortcuts == st1.cache.items
      i == FindIndex(shortcuts, modalId)
      title == IF modalTitle.t = "undefined" THEN S(<<>>) ELSE modalTitle
      created == Obj(S(ShortcutPrefix \o ToStr(modalId)),
                     S(generateDefaultLabel(title)), B(TRUE), S(ModalType),
                     modalId, N(Len(shortcuts)), B(TRUE),
                     ToISOString(t), ToISOString(t))
      pushed == Append(shortcuts, created)
      updated == [shortcuts EXCEPT ![i].enabled = B(enabled),
                                   ![i].updated_at = ToISOString(t)]
  IN IF i = 0 /\ enabled
     THEN IF TrimThrows(title) THEN Thrown(st1)
          ELSE save([st1 EXCEPT !.cache = CacheOf(pushed)], ArrayOf(pushed), writeOk, t)
     ELSE IF i # 0
          THEN save([st1 EXCEPT !.cache = CacheOf(updated)], ArrayOf(updated), writeOk, t)
     ELSE save(st1, ArrayOf(shortcuts), writeOk, t)

\* the label that updateLabel assigns to the record
SanitizeLabel(label) ==
  LET validLabel == Trim(OrElse(label, S(<<>>)).s)
  IN IF validLabel = <<>> THEN XX
     ELSE IF Len(validLabel) > MaxLabelLen THEN Substring0(validLabel, MaxLabelLen)
     ELSE validLabel

updateLabel(st, modalId, label, writeOk, t) ==
  LET st1 == load(st, writeOk, t)
      shortcuts == st1.cache.items
      i == FindIndex(shortcuts, modalId)
      updated == [shortcuts EXCEPT ![i].label = S(SanitizeLabel(label)),
                                   ![i].updated_at = ToISOString(t)]
  IN IF i = 0 THEN Returned(st1, FALSE)
     ELSE IF TrimThrows(label) THEN Thrown(st1)
     ELSE save([st1 EXCEPT !.cache = CacheOf(updated)], ArrayOf(updated), writeOk, t)

remove_SavesAnyway(st, modalId, writeOk, t) ==
  LET st1 == load(st, writeOk, t)
      shortcuts == st1.cache.items
      i == FindIndex(shortcuts, modalId)
      spliced == SubSeq(shortcuts, 1, i - 1) \o SubSeq(shortcuts, i + 1, Len(shortcuts))
  IN IF i = 0 THEN save(st1, ArrayOf(shortcuts), writeOk, t)
     ELSE save([st1 EXCEPT !.cache = CacheOf(spliced)], ArrayOf(spliced), writeOk, t)

remove(st, modalId, writeOk, t) ==
  LET st1 == load(st, writeOk, t)
      shortcuts == st1.cache.items
      i == FindIndex(shortcuts, modalId)
      spliced == SubSeq(shortcuts, 1, i - 1) \o SubSeq(shortcuts, i + 1, Len(shortcuts))
  IN IF i = 0 THEN Returned(st1, FALSE)
     ELSE save([st1 EXCEPT !.cache = CacheOf(spliced)], ArrayOf(spliced), writeOk, t)

clear(st, writeOk, t) == save(st, ArrayOf(<<>>), writeOk, t)

importData_ClearsOnError(st, jsonString, writeOk, t) ==
  IF jsonString.kind = "garbage" THEN Returned(save(st, ArrayOf(<<>>), writeOk, t).st, FALSE)
  ELSE save(st, JSONparse(jsonString), writeOk, t)

importData(st, jsonString, writeOk, t) ==
  IF jsonString.kind = "garbage" THEN Returned(st, FALSE)
  ELSE save(st, JSONparse(jsonString), writeOk, t)

\* JSON.stringify(shortcuts, null, 2) of what load() returns
exportData(st, writeOk, t) ==
  LET st1 == load(st, writeOk, t)
  IN [st |-> st1, text |-> JSONstringify(ArrayOf(st1.cache.items))]

getStorageInfo_Resaves(st, writeOk, t) ==
  LET st1 == load(st, writeOk, t)
  IN Returned(save(st1, ArrayOf(st1.cache.items), writeOk, t).st, TRUE)

\* the object it returns is not modelled, only that it returns one
getStorageInfo(st, writeOk, t) == Returned(load(st, writeOk, t), TRUE)

(***************************************************************************)
(* Inputs of the operations.                                               *)
(***************************************************************************)
Rep(c, k) == [i \in 1..k |-> c]

TargetX == S(<<"x">>)
TargetY == S(<<"y">>)
Targets == {S(<<>>), TargetX, TargetY}

AlphaBeta == S(<<"A", "l", "p", "h", "a", " ", "B", "e", "t", "a">>)
Titles == {Undef, AlphaBeta}

\* 21 characters after trim, the 20th a space
LongSpaced == <<" ">> \o Rep("a", MaxLabelLen - 1) \o <<" ", "b", " ">>
Labels == {S(<<" ">>), S(<<" ", "a", " ">>), S(Rep("a", MaxLabelLen + 1)),
           S(LongSpaced), N(5)}

\* {bogus: 1}
Bogus == NonRecord("object")
\* {action: {target: "x"}}
Minimal == Obj(Undef, Undef, Undef, Undef, TargetX, Undef, Undef, Undef, Undef)
WellX == Obj(S(ShortcutPrefix \o <<"x">>), S(<<"A", "B">>), B(TRUE), S(ModalType),
             TargetX, N(1), B(TRUE), ToISOString(1), ToISOString(1))
WellY == Obj(S(ShortcutPrefix \o <<"y">>), S(Rep("c", MaxLabelLen)), B(FALSE),
             S(ModalType), TargetY, N(5), B(FALSE), ToISOString(1), ToISOString(1))
\* a record in need of repair: numeric id, padded long label, string flags
Sloppy == Obj(N(7), S(LongSpaced), S(<<"y", "e", "s">>), Undef, TargetY,
              S(<<"1">>), Null, Undef, Undef)
\* the entries of the arrays save is called with
RawEntries == {Bogus, WellX, WellY, Sloppy}

SeqsUpTo(set, k) == UNION {[1..m -> set] : m \in 0..k}

\* the values save is called with
SaveInputs == {NotAnArray} \cup {ArrayOf(q) : q \in SeqsUpTo(RawEntries, MaxLen)}
\* the texts importData is called with: text that is not JSON, JSON of a
\* non-array, and JSON arrays of entries in need of repair
ImportEntries == {Bogus, Minimal, Sloppy}
ImportInputs ==
  {Garbage, JSONstringify(NotAnArray)}
    \cup {JSONstringify(ArrayOf(q)) : q \in SeqsUpTo(ImportEntries, MaxLen)}

(***************************************************************************)
(* The operations on the store, each a whole method call.  A call reads the *)
(* clock once and the clock moves on before the next call.                 *)
(***************************************************************************)
St == [stored |-> stored, cache |-> cache, emitted |-> <<>>, writes |-> 0]

Effects(op, target, text, enabled, writeOk, r) ==
  /\ stored' = r.st.stored
  /\ cache' = r.st.cache
  /\ lastOp' = [op |-> op, target |-> target, text |-> text, enabled |-> enabled,
                writeOk |-> writeOk, ret |-> r.ret, threw |-> r.threw,
                saved |-> r.saved, arg |-> r.arg, saveIn |-> r.saveIn,
                emitted |-> r.st.emitted, writes |-> r.st.writes]
  /\ now' = (IF now < MaxTime THEN now + 1 ELSE now)
  /\ UNCHANGED <<modalVars, auxVars>>

\* a call counted against the number of operations of the run
Done(op, target, text, enabled, writeOk, r) ==
  /\ ops < MaxOps
  /\ ops' = ops + 1
  /\ Effects(op, target, text, enabled, writeOk, r)

NoOp == [op |-> "new", target |-> Undef, text |-> Undef, enabled |-> FALSE,
         writeOk |-> TRUE, ret |-> FALSE, threw |-> FALSE, saved |-> FALSE,
         arg |-> NotAnArray, saveIn |-> <<>>, emitted |-> <<>>, writes |-> 0]

\* constructor: a new page load makes a new instance over the same storage
NewInstance ==
  /\ cache' = CacheNull
  /\ lastOp' = NoOp
  /\ UNCHANGED <<stored, ops, modalVars, now, auxVars>>

Load ==
  \E writeOk \in BOOLEAN :
    Done("load", Undef, Undef, FALSE, writeOk, Returned(load(St, writeOk, now), TRUE))

Save ==
  \E shortcuts \in SaveInputs, writeOk \in BOOLEAN :
    Done("save", Undef, Undef, FALSE, writeOk, save(St, shortcuts, writeOk, now))

\* a text that is not JSON, as a string value
NotJson == S(<<"{">>)

\* the text is recorded when it is not JSON
ImportData ==
  \E jsonString \in ImportInputs, writeOk \in BOOLEAN :
    Done("importData", Undef, IF jsonString = Garbage THEN NotJson ELSE Undef,
         FALSE, writeOk, importData(St, jsonString, writeOk, now))

Clear ==
  \E writeOk \in BOOLEAN :
    Done("clear", Undef, Undef, FALSE, writeOk, clear(St, writeOk, now))

Toggle ==
  \E modalId \in Targets, enabled \in BOOLEAN, modalTitle \in Titles,
     writeOk \in BOOLEAN :
    Done("toggle", modalId, modalTitle, enabled, writeOk,
         toggle(St, modalId, enabled, modalTitle, writeOk, now))

\* toggle in a run of any number of toggle calls
ToggleAgain ==
  \E modalId \in Targets, enabled \in BOOLEAN, modalTitle \in Titles,
     writeOk \in BOOLEAN :
    /\ Effects("toggle", modalId, modalTitle, enabled, writeOk,
               toggle(St, modalId, enabled, modalTitle, writeOk, now))
    /\ UNCHANGED ops

UpdateLabel ==
  \E modalId \in Targets, label \in Labels, writeOk \in BOOLEAN :
    Done("updateLabel", modalId, label, FALSE, writeOk,
         updateLabel(St, modalId, label, writeOk, now))

Remove ==
  \E modalId \in Targets, writeOk \in BOOLEAN :
    Done("remove", modalId, Undef, FALSE, writeOk, remove(St, modalId, writeOk, now))

GetStorageInfo ==
  \E writeOk \in BOOLEAN :
    Done("getStorageInfo", Undef, Undef, FALSE, writeOk,
         getStorageInfo(St, writeOk, now))

\* importData(exportData())
ImportExported ==
  \E writeOk \in BOOLEAN :
    LET exported == exportData(St, writeOk, now)
    IN Done("importExported", Undef, Undef, FALSE, writeOk,
            importData(exported.st, exported.text, writeOk, now))

\* time passes between calls
Tick ==
  /\ now < MaxTime
  /\ now' = now + 1
  /\ UNCHANGED <<storeVars, modalVars, auxVars>>

(***************************************************************************)
(* ModalState.                                                             *)
(***************************************************************************)
ModalIds == {S(<<>>), S(<<"m", "1">>), S(<<"m", "2">>)}
ModuleIds == {S(<<"m", "o", "d", "1">>), S(<<"m", "o", "d", "2">>)}

isActive == activeModalId # Null

\* the last call on the tracker: its arguments and result, the call before
\* it, and the openedAt it found
NoModalOp == [op |-> "new", modalId |-> Undef, moduleId |-> Undef,
              ret |-> FALSE, duration |-> 0, after |-> "new", opened |-> Null]

Open_GuardsTransitionOnly ==
  \E modalId \in ModalIds, moduleId \in ModuleIds :
    IF isTransitioning
    THEN /\ modalOp' = [op |-> "open", modalId |-> modalId, moduleId |-> moduleId,
                        ret |-> FALSE, duration |-> 0, after |-> modalOp.op,
                        opened |-> openedAt]
         /\ UNCHANGED <<activeModalId, activeModuleId, openedAt, previousModalId,
                        isTransitioning, storeVars, now, auxVars>>
    ELSE /\ previousModalId' = activeModalId
         /\ activeModalId' = modalId
         /\ activeModuleId' = moduleId
         /\ openedAt' = N(now)
         /\ isTransitioning' = FALSE
         /\ modalOp' = [op |-> "open", modalId |-> modalId, moduleId |-> moduleId,
                        ret |-> TRUE, duration |-> 0, after |-> modalOp.op,
                        opened |-> openedAt]
         /\ UNCHANGED <<storeVars, now, auxVars>>

Open ==
  \E modalId \in ModalIds, moduleId \in ModuleIds :
    IF isTransitioning \/ Truthy(activeModalId)
    THEN /\ modalOp' = [op |-> "open", modalId |-> modalId, moduleId |-> moduleId,
                        ret |-> FALSE, duration |-> 0, after |-> modalOp.op,
                        opened |-> openedAt]
         /\ UNCHANGED <<activeModalId, activeModuleId, openedAt, previousModalId,
                        isTransitioning, storeVars, now, auxVars>>
    ELSE /\ previousModalId' = activeModalId
         /\ activeModalId' = modalId
         /\ activeModuleId' = moduleId
         /\ openedAt' = N(now)
         /\ isTransitioning' = FALSE
         /\ modalOp' = [op |-> "open", modalId |-> modalId, moduleId |-> moduleId,
                        ret |-> TRUE, duration |-> 0, after |-> modalOp.op,
                        opened |-> openedAt]
         /\ UNCHANGED <<storeVars, now, auxVars>>

\* open called with a modal id that is not empty
OpenNamed == Open /\ Truthy(modalOp'.modalId)

Close_KeepsActive ==
  /\ modalOp' = [op |-> "close", modalId |-> Undef, moduleId |-> Undef, ret |-> FALSE,
                 duration |-> IF Truthy(openedAt) THEN now - openedAt.n ELSE 0,
                 after |-> modalOp.op, opened |-> openedAt]
  /\ activeModuleId' = Null
  /\ openedAt' = Null
  /\ UNCHANGED <<activeModalId, previousModalId, isTransitioning, storeVars, now,
                 auxVars>>

Close ==
  /\ modalOp' = [op |-> "close", modalId |-> Undef, moduleId |-> Undef, ret |-> FALSE,
                 duration |-> IF Truthy(openedAt) THEN now - openedAt.n ELSE 0,
                 after |-> modalOp.op, opened |-> openedAt]
  /\ activeModalId' = Null
  /\ activeModuleId' = Null
  /\ openedAt' = Null
  /\ UNCHANGED <<previousModalId, isTransitioning, storeVars, now, auxVars>>

(***************************************************************************)
(* ModalSystem.  Its tracker (this.state) is the ModalState of the         *)
(* variables above.  sys holds the registry (modal id -> Modal), the       *)
(* active Modal, the overlay, the number of Modal objects made so far, the *)
(* kind of the last notification of every modal id, and the last top-level *)
(* call with the handlers it ran and the notifications it dispatched.  A   *)
(* Modal is its config id and moduleId and the number it was made as: two  *)
(* Modals registered under one id are different objects.                   *)
(***************************************************************************)
NoModal == [id |-> Null, moduleId |-> Null, gen |-> 0]

NoModals == [k \in {} |-> NoModal]

NoCall == [op |-> "new", arg |-> Undef, handlers |-> <<>>, events |-> <<>>,
           reentry |-> <<>>]

NewSystem ==
  [modals |-> NoModals, activeModal |-> NoModal,
   overlay |-> [display |-> "none", child |-> NoModal, attached |-> TRUE],
   gens |-> 0, lastEvent |-> [id \in ModalIds |-> "none"], call |-> NoCall]

\* the tracker as one value
Tracker ==
  [activeModalId |-> activeModalId, activeModuleId |-> activeModuleId,
   openedAt |-> openedAt, previousModalId |-> previousModalId,
   isTransitioning |-> isTransitioning]

\* this.state.open(modalId, moduleId) at the given time
stateOpen(st, modalId, moduleId, time) ==
  IF st.isTransitioning \/ Truthy(st.activeModalId)
  THEN [state |-> st, ret |-> FALSE]
  ELSE [state |-> [st EXCEPT !.previousModalId = st.activeModalId,
                             !.activeModalId = modalId,
                             !.activeModuleId = moduleId,
                             !.openedAt = N(time)],
        ret |-> TRUE]

\* this.state.close() at the given time
stateClose(st, time) ==
  [state |-> [st EXCEPT !.activeModalId = Null, !.activeModuleId = Null,
                        !.openedAt = Null],
   duration |-> IF Truthy(st.openedAt) THEN time - st.openedAt.n ELSE 0]

\* the system and its tracker at the start of a top-level call
Called(op, arg) ==
  [state |-> Tracker, modals |-> sys.modals, activeModal |-> sys.activeModal,
   overlay |-> sys.overlay, gens |-> sys.gens,
   call |-> [op |-> op, arg |-> arg, handlers |-> <<>>, events |-> <<>>,
             reentry |-> <<>>]]

register(w, id, moduleId) ==
  LET modal == [id |-> id, moduleId |-> moduleId, gen |-> w.gens + 1]
  IN  [w EXCEPT !.gens = w.gens + 1,
                !.modals = [k \in DOMAIN w.modals \cup {id} |->
                              IF k = id THEN modal ELSE w.modals[k]]]

ModalOpened(modalId, moduleId) ==
  [type |-> "modal-opened", modalId |-> modalId, moduleId |-> moduleId,
   duration |-> 0]

ModalClosed(modalId, duration) ==
  [type |-> "modal-closed", modalId |-> modalId, moduleId |-> Undef,
   duration |-> duration]

systemOpen_IgnoresActive(w, modalId, time) ==
  IF modalId \notin DOMAIN w.modals THEN w
  ELSE LET modal == w.modals[modalId]
           opened == stateOpen(w.state, modalId, modal.moduleId, time)
       IN  IF ~opened.ret THEN w
           ELSE [w EXCEPT !.state = opened.state,
                          !.overlay.display = "flex",
                          !.overlay.child = modal,
                          !.activeModal = modal,
                          !.call.handlers = Append(@, [handler |-> "onOpen", modal |-> modal]),
                          !.call.events = Append(@, ModalOpened(modalId, modal.moduleId))]

\* ModalSystem.open(modalId) at the given time
systemOpen(w, modalId, time) ==
  IF modalId \notin DOMAIN w.modals THEN w
  ELSE IF w.activeModal # NoModal THEN w
  ELSE LET modal == w.modals[modalId]
           opened == stateOpen(w.state, modalId, modal.moduleId, time)
       IN  IF ~opened.ret THEN w
           ELSE [w EXCEPT !.state = opened.state,
                          !.overlay.display = "flex",
                          !.overlay.child = modal,
                          !.activeModal = modal,
                          !.call.handlers = Append(@, [handler |-> "onOpen", modal |-> modal]),
                          !.call.events = Append(@, ModalOpened(modalId, modal.moduleId))]

\* a handler or listener that calls ModalSystem.open(modalId) while it runs;
\* Undef stands for one that makes no call
Reenter(w, modalId, time) ==
  IF modalId = Undef THEN w
  ELSE LET v == systemOpen(w, modalId, time)
       IN  [v EXCEPT !.call.reentry =
                       Append(@, [modalId |-> modalId,
                                  accepted |-> Len(v.call.events) > Len(w.call.events)])]

closeActive_ReadsDurationLate(w, time, onClose, listener) ==
  IF w.activeModal = NoModal THEN w
  ELSE LET modalId == w.activeModal.id
           closed == stateClose(w.state, time)
           handled == Reenter([w EXCEPT !.state = closed.state,
                                        !.call.handlers =
                                          Append(@, [handler |-> "onClose",
                                                     modal |-> w.activeModal])],
                              onClose, time)
           hidden == [handled EXCEPT !.overlay.display = "none",
                                     !.overlay.child = NoModal,
                                     !.call.events =
                                       Append(@, ModalClosed(modalId,
                                                   stateClose(closed.state, time).duration))]
           notified == Reenter(hidden, listener, time)
       IN  [notified EXCEPT !.activeModal = NoModal]

closeActive_KeepsTracker(w, time, onClose, listener) ==
  IF w.activeModal = NoModal THEN w
  ELSE LET modalId == w.activeModal.id
           closed == stateClose(w.state, time)
           handled == Reenter([w EXCEPT !.call.handlers =
                                          Append(@, [handler |-> "onClose",
                                                     modal |-> w.activeModal])],
                              onClose, time)
           hidden == [handled EXCEPT !.overlay.display = "none",
                                     !.overlay.child = NoModal,
                                     !.call.events =
                                       Append(@, ModalClosed(modalId, closed.duration))]
           notified == Reenter(hidden, listener, time)
       IN  [notified EXCEPT !.activeModal = NoModal]

\* ModalSystem.closeActive() at the given time; onClose and listener are the
\* modal ids that the onClose handler and a modal-closed listener open
closeActive(w, time, onClose, listener) ==
  IF w.activeModal = NoModal THEN w
  ELSE LET modalId == w.activeModal.id
           closed == stateClose(w.state, time)
           handled == Reenter([w EXCEPT !.state = closed.state,
                                        !.call.handlers =
                                          Append(@, [handler |-> "onClose",
                                                     modal |-> w.activeModal])],
                              onClose, time)
           hidden == [handled EXCEPT !.overlay.display = "none",
                                     !.overlay.child = NoModal,
                                     !.call.events =
                                       Append(@, ModalClosed(modalId, closed.duration))]
           notified == Reenter(hidden, listener, time)
       IN  [notified EXCEPT !.activeModal = NoModal]

unregister(w, modalId, time) ==
  IF modalId \notin DOMAIN w.modals THEN w
  ELSE LET closed == IF w.activeModal = w.modals[modalId]
                     THEN closeActive(w, time, Undef, Undef) ELSE w
       IN  [closed EXCEPT !.modals = [k \in DOMAIN w.modals \ {modalId} |-> w.modals[k]]]

destroy(w, time) ==
  [closeActive(w, time, Undef, Undef) EXCEPT !.modals = NoModals,
                                             !.overlay.attached = FALSE]

\* the kind of the last notification of every modal id after the call
LastEvents(events, last) ==
  [id \in ModalIds |->
     IF \E i \in DOMAIN events : events[i].modalId = id
     THEN LET i == CHOOSE i \in DOMAIN events :
                     /\ events[i].modalId = id
                     /\ \A j \in DOMAIN events : events[j].modalId = id => j <= i
          IN  IF events[i].type = "modal-opened" THEN "opened" ELSE "closed"
     ELSE last[id]]

\* the call returns: w is the system and the tracker it leaves
SystemStep(w) ==
  /\ activeModalId' = w.state.activeModalId
  /\ activeModuleId' = w.state.activeModuleId
  /\ openedAt' = w.state.openedAt
  /\ previousModalId' = w.state.previousModalId
  /\ isTransitioning' = w.state.isTransitioning
  /\ sys' = [modals |-> w.modals, activeModal |-> w.activeModal,
             overlay |-> w.overlay, gens |-> w.gens,
             lastEvent |-> LastEvents(w.call.events, sys.lastEvent),
             call |-> w.call]
  /\ UNCHANGED <<modalOp, storeVars, now, probe, cacheB, tab, theme, coll>>

Register ==
  \E id \in ModalIds, moduleId \in ModuleIds :
    /\ sys.gens < MaxModals
    /\ SystemStep(register(Called("register", id), id, moduleId))

SystemOpen ==
  \E modalId \in ModalIds :
    SystemStep(systemOpen(Called("open", modalId), modalId, now))

CloseActive == SystemStep(closeActive(Called("closeActive", Undef), now, Undef, Undef))

\* keydown of Escape on the document
EscapeKey ==
  SystemStep(IF isActive THEN closeActive(Called("escape", Undef), now, Undef, Undef)
             ELSE Called("escape", Undef))

\* a click on the overlay outside the modal, which takes a displayed overlay
BackdropClick ==
  /\ sys.overlay.display = "flex"
  /\ sys.overlay.attached
  /\ SystemStep(closeActive(Called("backdrop", Undef), now, Undef, Undef))

Unregister ==
  \E modalId \in ModalIds :
    SystemStep(unregister(Called("unregister", modalId), modalId, now))

Destroy == SystemStep(destroy(Called("destroy", Undef), now))

\* closeActive() with an onClose handler or a modal-closed listener that
\* opens a modal while it runs
CloseActiveReentered ==
  \E onClose \in ModalIds \cup {Undef}, listener \in ModalIds \cup {Undef} :
    /\ onClose # Undef \/ listener # Undef
    /\ SystemStep(closeActive(Called("closeActive", Undef), now, onClose, listener))

(***************************************************************************)
(* Two ShortcutDataStore instances, A and B, over the one localStorage     *)
(* item (two tabs).  cache is the cache of A and cacheB the cache of B;    *)
(* tab tells which instance made the last call and whether both instances  *)
(* had loaded when it started.  The event of a save reaches the listeners  *)
(* of the document of the calling tab only.                                *)
(***************************************************************************)
NoTab == [by |-> "none", loaded |-> FALSE]

StB == [stored |-> stored, cache |-> cacheB, emitted |-> <<>>, writes |-> 0]

TabTargets == {TargetX, TargetY}

\* the effect of a call on instance B
EffectsB(op, target, text, enabled, writeOk, r) ==
  /\ stored' = r.st.stored
  /\ cacheB' = r.st.cache
  /\ lastOp' = [op |-> op, target |-> target, text |-> text, enabled |-> enabled,
                writeOk |-> writeOk, ret |-> r.ret, threw |-> r.threw,
                saved |-> r.saved, arg |-> r.arg, saveIn |-> r.saveIn,
                emitted |-> r.st.emitted, writes |-> r.st.writes]
  /\ tab' = [by |-> "B", loaded |-> ~cache.isNull /\ ~cacheB.isNull]
  /\ now' = (IF now < MaxTime THEN now + 1 ELSE now)
  /\ UNCHANGED <<cache, ops, modalVars, probe, theme, coll, sys>>

\* the effect of a call on instance A
EffectsA(op, target, text, enabled, writeOk, r) ==
  /\ stored' = r.st.stored
  /\ cache' = r.st.cache
  /\ lastOp' = [op |-> op, target |-> target, text |-> text, enabled |-> enabled,
                writeOk |-> writeOk, ret |-> r.ret, threw |-> r.threw,
                saved |-> r.saved, arg |-> r.arg, saveIn |-> r.saveIn,
                emitted |-> r.st.emitted, writes |-> r.st.writes]
  /\ tab' = [by |-> "A", loaded |-> ~cache.isNull /\ ~cacheB.isNull]
  /\ now' = (IF now < MaxTime THEN now + 1 ELSE now)
  /\ UNCHANGED <<cacheB, ops, modalVars, probe, theme, coll, sys>>

\* the stored value is missing or an array here, so load() writes nothing
LoadA ==
  EffectsA("load", Undef, Undef, FALSE, TRUE, Returned(load(St, TRUE, now), TRUE))

LoadB ==
  EffectsB("load", Undef, Undef, FALSE, TRUE, Returned(load(StB, TRUE, now), TRUE))

\* localStorage accepts the writes of both tabs
ToggleA ==
  \E modalId \in TabTargets, enabled \in BOOLEAN :
    EffectsA("toggle", modalId, AlphaBeta, enabled, TRUE,
             toggle(St, modalId, enabled, AlphaBeta, TRUE, now))

ToggleB ==
  \E modalId \in TabTargets, enabled \in BOOLEAN :
    EffectsB("toggle", modalId, AlphaBeta, enabled, TRUE,
             toggle(StB, modalId, enabled, AlphaBeta, TRUE, now))

(***************************************************************************)
(* generateDefaultLabel called on its own.                                 *)
(***************************************************************************)
NoProbe == [fn |-> "none", arg |-> Undef, out |-> <<>>]

MissionControlPanel ==
  S(<<"M", "i", "s", "s", "i", "o", "n", " ", "C", "o", "n", "t", "r", "o", "l",
      " ", "P", "a", "n", "e", "l">>)

\* the titles: none, the empty one, every string of spaces, "a" and "B" up
\* to MaxTitleLen, every string of spaces and "c" three characters longer
ProbeTitles ==
  {Undef, Null, MissionControlPanel}
    \cup {S(q) : q \in SeqsUpTo({" ", "a", "B"}, MaxTitleLen)}
    \cup {S(q) : q \in SeqsUpTo({" ", "c"}, MaxTitleLen + 3)}

GenerateDefaultLabel ==
  \E title \in ProbeTitles :
    /\ probe' = [fn |-> "generateDefaultLabel", arg |-> title,
                 out |-> generateDefaultLabel(title)]
    /\ UNCHANGED <<storeVars, modalVars, now, cacheB, tab, theme, coll, sys>>

(***************************************************************************)
(* opsTheme.  theme holds the initialized flag of window.opsTheme, the     *)
(* inline style of the document root for the four theme properties ("" for *)
(* a property that is not set) and the last call with what it returned     *)
(* ("true", "false" or "undefined").                                       *)
(***************************************************************************)
CSS_VARIABLES ==
  [bg |-> "#000000", text |-> "#00FF00", ui |-> "#00FF00",
   font |-> "'Share Tech Mono', monospace"]

ThemeProperties == DOMAIN CSS_VARIABLES

\* the values a page script sets a theme property to
OverrideValues == {"red", ""}

Unstyled == [p \in ThemeProperties |-> ""]

\* the script has been evaluated and has not called init yet
ThemeLoaded ==
  [initialized |-> FALSE, style |-> Unstyled, op |-> "load", ret |-> "undefined"]

\* opsTheme.init(); throws tells whether setProperty throws
ThemeInit ==
  \E throws \in BOOLEAN :
    /\ theme' = IF theme.initialized
                THEN [theme EXCEPT !.op = "init", !.ret = "undefined"]
                ELSE IF throws
                     THEN [theme EXCEPT !.op = "init", !.ret = "false"]
                ELSE [initialized |-> TRUE, style |-> CSS_VARIABLES,
                      op |-> "init", ret |-> "true"]
    /\ UNCHANGED <<storeVars, modalVars, now, probe, cacheB, tab, coll, sys>>

\* document.documentElement.style.setProperty(property, value) by the page
SetProperty ==
  \E property \in ThemeProperties, value \in OverrideValues :
    /\ theme' = [theme EXCEPT !.style[property] = value, !.op = "setProperty",
                              !.ret = "undefined"]
    /\ UNCHANGED <<storeVars, modalVars, now, probe, cacheB, tab, coll, sys>>

(***************************************************************************)
(* CollapsibleContainer.  The item under the storage key is nothing        *)
(* ("missing"), text that is no JSON ("garbage"), the JSON of a number or  *)
(* boolean ("primitive"), of null ("null"), of an array ("array") or of an *)
(* object ("object"); own maps the own properties of a parsed object to    *)
(* their values.  Every parsed object and array inherits the accessor      *)
(* __proto__ from Object.prototype.                                        *)
(***************************************************************************)
ObjectPrototype == [t |-> "object", b |-> FALSE, n |-> 0, s |-> <<>>]

\* Boolean(v), objects included
ToBoolean(v) == v.t = "object" \/ Truthy(v)

ProtoKey == "__proto__"

\* ids of the container under study, of its neighbour, and all of them
ContainerIds == {"a", ProtoKey}
NeighbourId == "b"
StateIds == ContainerIds \cup {NeighbourId}

NoOwn == [k \in {} |-> Null]

Item(kind, own) == [kind |-> kind, own |-> own]

\* id in data
HasProperty(own, id) == id \in DOMAIN own \/ id = ProtoKey

\* data[id]
GetProperty(own, id) ==
  IF id \in DOMAIN own THEN own[id]
  ELSE IF id = ProtoKey THEN ObjectPrototype
  ELSE Undef

\* data[id] = value for a boolean value: the inherited __proto__ setter
\* ignores a value that is no object
Assign(own, id, value) ==
  IF id \notin DOMAIN own /\ id = ProtoKey THEN own
  ELSE [k \in DOMAIN own \cup {id} |-> IF k = id THEN value ELSE own[k]]

\* delete data[id]
Delete(own, id) == [k \in DOMAIN own \ {id} |-> own[k]]

loadState(item, id, defaultExpanded) ==
  IF item.kind \in {"object", "array"} /\ HasProperty(item.own, id)
  THEN B(ToBoolean(GetProperty(item.own, id)))
  ELSE defaultExpanded

\* JSON.stringify of an array drops the property set on it; assigning to a
\* property of a number, a boolean or null throws and is caught
saveState(item, id, expanded) ==
  CASE item.kind \in {"missing", "garbage"} -> Item("object", Assign(NoOwn, id, expanded))
    [] item.kind = "object" -> Item("object", Assign(item.own, id, expanded))
    [] OTHER -> item

clearState(item, id) ==
  IF item.kind = "object" THEN Item("object", Delete(item.own, id)) ELSE item

\* new CollapsibleContainer({id, defaultExpanded}) over the item
Container(item, id, defaultExpanded) ==
  [id |-> id,
   expanded |-> loadState(item, id, IF defaultExpanded = Undef THEN B(FALSE)
                                    ELSE defaultExpanded),
   live |-> TRUE]

DefaultExpandeds == {Undef, B(TRUE), B(FALSE)}

StoredValues == {B(TRUE), B(FALSE), N(0)}

Items ==
  {Item(k, NoOwn) : k \in {"missing", "garbage", "primitive", "null", "array"}}
    \cup {Item("object", own) :
            own \in UNION {[D -> StoredValues] : D \in SUBSET StateIds}}

NoFresh == [id |-> "", expanded |-> Undef, live |-> FALSE]

\* given is the kind of item the page started with, acted tells whether the
\* container under study has made an effective call, fresh is the container
\* constructed last with its id, op the last call and the event it dispatched
Containers(item, id, d) ==
  [item |-> item, given |-> item.kind,
   first |-> Container(item, id, d),
   other |-> Container(item, NeighbourId, Undef),
   fresh |-> NoFresh, acted |-> FALSE,
   op |-> [name |-> "new", event |-> "none"]]

NoContainers == Containers(Item("missing", NoOwn), "a", Undef)

expand(c, who) ==
  IF Truthy(c[who].expanded) THEN [c EXCEPT !.op.event = "none"]
  ELSE [c EXCEPT ![who].expanded = B(TRUE),
                 !.item = saveState(c.item, c[who].id, B(TRUE)),
                 !.acted = c.acted \/ who = "first",
                 !.op.event = "collapsible-expanded"]

collapse(c, who) ==
  IF ~Truthy(c[who].expanded) THEN [c EXCEPT !.op.event = "none"]
  ELSE [c EXCEPT ![who].expanded = B(FALSE),
                 !.item = saveState(c.item, c[who].id, B(FALSE)),
                 !.acted = c.acted \/ who = "first",
                 !.op.event = "collapsible-collapsed"]

toggleContainer(c, who) ==
  IF Truthy(c[who].expanded) THEN collapse(c, who) ELSE expand(c, who)

CollapsibleStep(c) ==
  /\ coll' = c
  /\ UNCHANGED <<storeVars, modalVars, now, probe, cacheB, tab, theme, sys>>

Expand == CollapsibleStep([expand(coll, "first") EXCEPT !.op.name = "expand"])

Collapse == CollapsibleStep([collapse(coll, "first") EXCEPT !.op.name = "collapse"])

ToggleContainer ==
  CollapsibleStep([toggleContainer(coll, "first") EXCEPT !.op.name = "toggle"])

\* a click on the header of the neighbour
NeighbourToggle ==
  /\ coll.other.live
  /\ CollapsibleStep([toggleContainer(coll, "other") EXCEPT !.op.name = "neighbourToggle"])

\* destroy() of the neighbour
NeighbourDestroy ==
  /\ coll.other.live
  /\ CollapsibleStep([coll EXCEPT !.item = clearState(coll.item, NeighbourId),
                                  !.other.live = FALSE,
                                  !.op = [name |-> "neighbourDestroy", event |-> "none"]])

\* new CollapsibleContainer with the id and storage key of the first one
Construct ==
  \E d \in DefaultExpandeds :
    CollapsibleStep([coll EXCEPT !.fresh = Container(coll.item, coll.first.id, d),
                                !.op = [name |-> "construct", event |-> "none"]])

(***************************************************************************)
(* Specifications.                                                         *)
(***************************************************************************)
InitAux ==
  /\ probe = NoProbe
  /\ cacheB = CacheNull
  /\ tab = NoTab
  /\ theme = ThemeLoaded
  /\ coll = NoContainers
  /\ sys = NewSystem

InitModal ==
  /\ activeModalId = Null
  /\ activeModuleId = Null
  /\ openedAt = Null
  /\ previousModalId = Null
  /\ isTransitioning = FALSE
  /\ modalOp = NoModalOp

Init ==
  /\ stored \in {Missing, Garbage, NonArrayText}
  /\ cache = CacheNull
  /\ lastOp = NoOp
  /\ ops = 0
  /\ now = 1
  /\ InitModal
  /\ InitAux

Next ==
  \/ NewInstance
  \/ Load
  \/ Save
  \/ ImportData
  \/ Clear
  \/ Toggle
  \/ UpdateLabel
  \/ Remove
  \/ GetStorageInfo
  \/ ImportExported

Spec == Init /\ [][Next]_vars

\* toggle calls only, any number of them, on a store that starts empty
InitToggle == Init /\ stored = Missing

NextToggle ==
  \/ ToggleAgain
  \/ NewInstance

SpecToggle == InitToggle /\ [][NextToggle]_vars

\* two tabs over a store that starts empty
NextTabs ==
  \/ LoadA
  \/ LoadB
  \/ ToggleA
  \/ ToggleB

SpecTabs == InitToggle /\ [][NextTabs]_vars

NextTheme ==
  \/ ThemeInit
  \/ SetProperty

SpecTheme == InitToggle /\ [][NextTheme]_vars

NextCollapsible ==
  \/ Expand
  \/ Collapse
  \/ ToggleContainer
  \/ NeighbourToggle
  \/ NeighbourDestroy
  \/ Construct

InitCollapsible ==
  /\ stored = Missing
  /\ cache = CacheNull
  /\ lastOp = NoOp
  /\ ops = 0
  /\ now = 1
  /\ InitModal
  /\ probe = NoProbe
  /\ cacheB = CacheNull
  /\ tab = NoTab
  /\ theme = ThemeLoaded
  /\ sys = NewSystem
  /\ coll \in {Containers(item, id, d) :
                 item \in Items, id \in ContainerIds, d \in DefaultExpandeds}

SpecCollapsible == InitCollapsible /\ [][NextCollapsible]_vars

NextLabel ==
  \/ GenerateDefaultLabel

SpecLabel == InitToggle /\ [][NextLabel]_vars

NextModal ==
  \/ Open
  \/ Close
  \/ Tick

\* the tracker alone; Date.now() counts from the epoch, where it is 0
InitModalClock ==
  /\ stored = Missing
  /\ cache = CacheNull
  /\ lastOp = NoOp
  /\ ops = 0
  /\ now \in {0, 1}
  /\ InitModal
  /\ InitAux

SpecModal == InitModalClock /\ [][NextModal]_vars

\* the modal system under handlers and listeners that return and make no
\* call on the system
NextModalSystem ==
  \/ Register
  \/ SystemOpen
  \/ CloseActive
  \/ EscapeKey
  \/ BackdropClick
  \/ Unregister
  \/ Destroy
  \/ Tick

SpecModalSystem == InitModalClock /\ [][NextModalSystem]_vars

\* the modal system under handlers and listeners that open a modal
NextModalReentered ==
  \/ Register
  \/ SystemOpen
  \/ CloseActive
  \/ CloseActiveReentered
  \/ Tick

SpecModalReentered == InitModalClock /\ [][NextModalReentered]_vars

\* the tracker alone, opened with non-empty modal ids only
NextModalNamed ==
  \/ OpenNamed
  \/ Close
  \/ Tick

SpecModalNamed == InitModalClock /\ [][NextModalNamed]_vars

(***************************************************************************)
(* Properties.                                                             *)
(***************************************************************************)
\* what load() returns when called in the current state
LoadReturn == load(St, TRUE, now).cache.items

\* the step is a call of a store operation
StoreCall == ops' = ops + 1

\* p lists the indices of seq in ascending order of position, equal
\* positions in index order
StableOrder(p, seq) ==
  \A i, j \in DOMAIN p :
    i < j => \/ seq[p[i]].position.n < seq[p[j]].position.n
             \/ /\ seq[p[i]].position.n = seq[p[j]].position.n
                /\ p[i] < p[j]

Bijections(k, set) ==
  {p \in [1..k -> set] : \A i, j \in 1..k : p[i] = p[j] => i = j}

UniqueTargets(seq) ==
  \A i, j \in 1..Len(seq) : TargetOf(seq[i]) = TargetOf(seq[j]) => i = j

\* C1: ModalState.open returns false and changes none of the five fields
\* whenever isActive() is true or isTransitioning is true.
C1_OpenRejectedWhenActive ==
  [][(Open /\ (isActive \/ isTransitioning))
       => /\ modalOp'.ret = FALSE
          /\ UNCHANGED <<activeModalId, activeModuleId, openedAt,
                         previousModalId, isTransitioning>>]_vars

\* C2: an operation whose localStorage write fails returns false, does not
\* throw, and leaves what load() returns as it was before the call.
C2_FailedWriteKeepsCache ==
  [][(StoreCall /\ lastOp'.op \in {"save", "toggle", "updateLabel", "remove",
                                    "clear", "importData"}
        /\ lastOp'.writes > 0 /\ ~lastOp'.writeOk)
       => /\ lastOp'.ret = FALSE
          /\ ~lastOp'.threw
          /\ LoadReturn' = LoadReturn]_vars

\* C3: after every successful save the persisted positions are exactly
\* 0..n-1 in array order, and the array is the validated input in ascending
\* order of its pre-save positions, equal positions keeping their input order.
C3_SavedPositionsDenseStable ==
  lastOp.saved =>
    LET in == lastOp.saveIn
        out == stored.items
        n == Len(in)
    IN /\ stored.kind = "array"
       /\ Len(out) = n
       /\ \A i \in 1..n : out[i].position = N(i - 1)
       /\ \E p \in Bijections(n, 1..n) :
            /\ StableOrder(p, in)
            /\ \A i \in 1..n : out[i] = [in[p[i]] EXCEPT !.position = N(i - 1)]

C3_Witness ==
  /\ lastOp.saved
  /\ \E i, j \in 1..Len(lastOp.saveIn) :
       i < j /\ lastOp.saveIn[i].position.n > lastOp.saveIn[j].position.n

\* a record as the data model describes it
WellFormed(e) ==
  /\ e.kind = "object"
  /\ e.id.t = "string" /\ e.id.s # <<>>
  /\ e.label.t = "string" /\ e.label.s # <<>>
  /\ Trim(e.label.s) = e.label.s /\ Len(e.label.s) <= MaxLabelLen
  /\ e.enabled.t = "boolean"
  /\ e.action.present
  /\ e.action.type = S(ModalType)
  /\ e.action.target.t = "string" /\ e.action.target.s # <<>>
  /\ e.position.t = "number" /\ e.position.n >= 0
  /\ e.visible.t = "boolean"
  /\ e.created_at.t = "string" /\ e.created_at.s # <<>>
  /\ e.updated_at.t = "string" /\ e.updated_at.s # <<>>

SavedWellFormed ==
  /\ lastOp.op = "save"
  /\ lastOp.saved
  /\ lastOp.arg.isArray
  /\ \A i \in 1..Len(lastOp.arg.items) : WellFormed(lastOp.arg.items[i])

\* equal but for position and updated_at
SameRecord(a, b) ==
  [a EXCEPT !.position = Undef, !.updated_at = Undef]
    = [b EXCEPT !.position = Undef, !.updated_at = Undef]

\* C4 as stated: load() after a successful save(records) of well-formed
\* records returns records element by element in the same order, but for
\* position and updated_at.
C4_Original ==
  SavedWellFormed =>
    /\ Len(LoadReturn) = Len(lastOp.arg.items)
    /\ \A i \in 1..Len(LoadReturn) : SameRecord(LoadReturn[i], lastOp.arg.items[i])

\* C4 amended: load() after a successful save(records) of well-formed records
\* returns the records in ascending order of position (equal positions in
\* input order), each equal to its input record but for position and
\* updated_at.
C4_RoundTripSorted ==
  SavedWellFormed =>
    LET in == lastOp.arg.items
        n == Len(in)
    IN /\ Len(LoadReturn) = n
       /\ \E p \in Bijections(n, 1..n) :
            /\ StableOrder(p, in)
            /\ \A i \in 1..n : SameRecord(LoadReturn[i], in[p[i]])

C4_Witness ==
  /\ SavedWellFormed
  /\ Len(lastOp.arg.items) = 2
  /\ lastOp.arg.items[1].position.n > lastOp.arg.items[2].position.n
  /\ SameRecord(LoadReturn[1], lastOp.arg.items[2])

\* C5: starting from an empty store, after any sequence of toggle calls no
\* two records of the sequence share an action.target.
C5_ToggleUniqueTargets ==
  UniqueTargets(cache.items) /\ UniqueTargets(stored.items)

\* a record of an earlier toggle was toggled again, and is still the only one
C5_Witness ==
  /\ lastOp.op = "toggle" /\ lastOp.enabled /\ lastOp.saved
  /\ Len(stored.items) = 1
  /\ stored.items[1].action.target = lastOp.target
  /\ stored.items[1].created_at # stored.items[1].updated_at

\* C6: in every reachable state the persisted sequence has at most one
\* record per action.target.
C6_PersistedUniqueTargets ==
  stored.kind = "array" => UniqueTargets(stored.items)

\* C7: after any successful persisted write every persisted record has a
\* label that is a non-empty string of at most 20 characters.
C7_PersistedLabels ==
  stored.kind = "array" =>
    \A i \in 1..Len(stored.items) :
      /\ stored.items[i].label.t = "string"
      /\ Len(stored.items[i].label.s) >= 1
      /\ Len(stored.items[i].label.s) <= 20

C7_Witness ==
  /\ lastOp.saved
  /\ \E i \in 1..Len(lastOp.arg.items) :
       /\ IsRecord(lastOp.arg.items[i])
       /\ Len(Trim(ToStr(lastOp.arg.items[i].label))) > 20
  /\ \E i \in 1..Len(stored.items) : Len(stored.items[i].label.s) = 20

\* the label persisted for the first record of the target is l
StoredLabelIs(target, l) ==
  \E i \in 1..Len(stored.items) :
    /\ stored.items[i].action.target = target
    /\ \A j \in 1..(i - 1) : stored.items[j].action.target # target
    /\ stored.items[i].label = S(l)

\* updateLabel found a record of a target that can be persisted, and saved
UpdatedLabel ==
  lastOp.op = "updateLabel" /\ lastOp.saved /\ Truthy(lastOp.target)

\* C8 as stated: updateLabel stores "XX" for a label that is empty after
\* trim, the trimmed label when it has 1 to 20 characters, and otherwise
\* exactly the first 20 characters of the trimmed label.
C8_Original ==
  UpdatedLabel =>
    LET trimmed == Trim(lastOp.text.s)
    IN StoredLabelIs(lastOp.target,
         IF trimmed = <<>> THEN XX
         ELSE IF Len(trimmed) <= 20 THEN trimmed
         ELSE SubSeq(trimmed, 1, 20))

\* C8 amended: for a non-empty target that has a record, updateLabel stores
\* "XX" for a label that is empty after trim, the trimmed label when it has
\* 1 to 20 characters, and otherwise the first 20 characters of the trimmed
\* label with the whitespace at their end removed (at most 20 characters).
C8_UpdateLabelStored ==
  UpdatedLabel =>
    LET trimmed == Trim(lastOp.text.s)
    IN StoredLabelIs(lastOp.target,
         IF trimmed = <<>> THEN XX
         ELSE IF Len(trimmed) <= 20 THEN trimmed
         ELSE TrimEnd(SubSeq(trimmed, 1, 20)))

C8_Witness ==
  /\ UpdatedLabel
  /\ Len(Trim(lastOp.text.s)) > 20
  /\ \E i \in 1..Len(stored.items) :
       /\ stored.items[i].action.target = lastOp.target
       /\ Len(stored.items[i].label.s) < 20

\* the indices of the entries that are objects with an action.target
KeptIndices(items) ==
  {i \in 1..Len(items) :
     /\ items[i].kind = "object"
     /\ items[i].action.present
     /\ Truthy(items[i].action.target)}

\* r is the repaired form of entry e, at index k of the result
RepairedFrom(r, e, k) ==
  /\ r.kind = "object"
  /\ r.id = IF Truthy(e.id) THEN e.id
            ELSE S(ShortcutPrefix \o ToStr(e.action.target))
  /\ r.label.t = "string"
  /\ IF ~Truthy(e.label) \/ Trim(ToStr(e.label)) = <<>>
     THEN r.label.s = XX
     ELSE /\ r.label.s # <<>>
          /\ Len(r.label.s) <= 20
          /\ Len(r.label.s) <= Len(Trim(ToStr(e.label)))
          /\ r.label.s = SubSeq(Trim(ToStr(e.label)), 1, Len(r.label.s))
          /\ Len(r.label.s) = 20 \/ r.label.s = Trim(ToStr(e.label))
  /\ r.enabled = B(Truthy(e.enabled))
  /\ r.action.type = (IF Truthy(e.action.type) THEN e.action.type ELSE S(ModalType))
  /\ r.action.target = e.action.target
  /\ r.position = N(k - 1)
  /\ r.visible = B(e.visible # B(FALSE))
  /\ Truthy(r.created_at) /\ (Truthy(e.created_at) => r.created_at = e.created_at)
  /\ Truthy(r.updated_at) /\ (Truthy(e.updated_at) => r.updated_at = e.updated_at)

\* numeric position of an entry: Number(position), 0 when that is no number
NumericPosition(e) ==
  LET v == ToNumber(e.position) IN IF v.t = "number" THEN v.n ELSE 0

\* C9: save and importData do not throw and persist exactly the repaired
\* form of the entries that are objects with an action.target, in stable
\* position order, dropping every other entry.
C9_RepairNotReject ==
  (lastOp.op \in {"save", "importData"} /\ lastOp.saved) =>
    LET in == lastOp.arg.items
        out == stored.items
        kept == KeptIndices(in)
        n == Cardinality(kept)
    IN /\ ~lastOp.threw
       /\ lastOp.ret
       /\ stored.kind = "array"
       /\ Len(out) = n
       /\ \E p \in Bijections(n, kept) :
            /\ \A i, j \in 1..n :
                 i < j => \/ NumericPosition(in[p[i]]) < NumericPosition(in[p[j]])
                          \/ /\ NumericPosition(in[p[i]]) = NumericPosition(in[p[j]])
                             /\ p[i] < p[j]
            /\ \A i \in 1..n : RepairedFrom(out[i], in[p[i]], i)

\* importData('[{"bogus":1},{"action":{"target":"x"}}]')
C9_Witness ==
  /\ lastOp.op = "importData" /\ lastOp.saved
  /\ lastOp.arg = ArrayOf(<<Bogus, Minimal>>)
  /\ Len(stored.items) = 1
  /\ stored.items[1].action.target = TargetX
  /\ stored.items[1].label = S(XX)
  /\ stored.items[1].enabled = B(FALSE)
  /\ stored.items[1].position = N(0)

EmptyArrayText == [kind |-> "array", items |-> <<>>]

\* the step is the first load() of an instance whose stored value is
\* missing, not JSON, or JSON of something that is not an array
FirstLoadOfUnusable ==
  /\ StoreCall
  /\ lastOp'.op = "load"
  /\ cache.isNull
  /\ stored.kind \in {"missing", "garbage", "nonarray"}

\* C10 as stated: in each of the three cases load() returns the empty
\* sequence without throwing and the persisted value afterwards is the
\* empty sequence.
C10_Original ==
  [][FirstLoadOfUnusable
       => /\ ~lastOp'.threw
          /\ cache' = CacheOf(<<>>)
          /\ stored' = EmptyArrayText]_vars

\* C10 amended: in each of the three cases load() returns the empty sequence
\* without throwing; the persisted value afterwards is the empty sequence
\* when the stored value was not parseable and the write succeeds, and is
\* the stored value unchanged in every other case.
C10_FirstLoadFailSafe ==
  [][FirstLoadOfUnusable
       => /\ ~lastOp'.threw
          /\ cache' = CacheOf(<<>>)
          /\ stored' = IF stored.kind = "garbage" /\ lastOp'.writeOk
                       THEN EmptyArrayText ELSE stored]_vars

C10_Witness ==
  /\ lastOp.op = "load"
  /\ lastOp.writes = 1 /\ lastOp.writeOk
  /\ stored = EmptyArrayText
  /\ cache = CacheOf(<<>>)

\* C18: after close() the next open(m, mod) is accepted and leaves
\* activeModalId = m, activeModuleId = mod, openedAt = the time of the call
\* and isTransitioning = false.
C18_OpenAfterClose ==
  [][(Open /\ modalOp.op = "close")
       => /\ modalOp'.ret = TRUE
          /\ activeModalId' = modalOp'.modalId
          /\ activeModuleId' = modalOp'.moduleId
          /\ openedAt' = N(now)
          /\ isTransitioning' = FALSE]_vars

\* a second session, opened after the first one was closed
C18_Witness ==
  /\ modalOp.op = "open" /\ modalOp.after = "close" /\ modalOp.ret
  /\ activeModalId = S(<<"m", "2">>)
  /\ activeModuleId = S(<<"m", "o", "d", "2">>)
  /\ openedAt = N(MaxTime)

\* an accepted open has not been followed by a close yet
SessionOpen == activeModalId # Null

\* C19: close() returns the time of the close call minus the time of the
\* accepted open of the current session when a session is open, for every
\* open time, and 0 when none is; afterwards activeModalId, activeModuleId
\* and openedAt are absent and isActive() is false.
C19_CloseDuration ==
  [][Close
       => /\ modalOp'.duration = (IF SessionOpen THEN now - openedAt.n ELSE 0)
          /\ activeModalId' = Null
          /\ activeModuleId' = Null
          /\ openedAt' = Null
          /\ ~isActive']_vars

\* the event of a save that persisted the empty sequence at the time of the
\* call, as a listener finds it
EmptyEvent ==
  [shortcuts |-> <<>>, timestamp |-> now, cache |-> CacheOf(<<>>),
   stored |-> EmptyArrayText]

\* the call starts with the first load() of an instance whose stored value
\* is not parseable
LoadsUnparseable ==
  /\ lastOp'.op \in {"load", "toggle", "updateLabel", "remove", "getStorageInfo"}
  /\ cache.isNull
  /\ stored.kind = "garbage"

\* every successful save of the call emitted exactly one event, after the
\* write and the cache update, carrying the sequence it persisted; the last
\* one carries what load() returns after the call
OneEventPerSave ==
  LET o == lastOp'
      e == o.emitted
  IN /\ Len(e) = (IF o.writeOk THEN o.writes ELSE 0)
     /\ \A i \in 1..Len(e) :
          /\ e[i].cache = CacheOf(e[i].shortcuts)
          /\ e[i].stored = JSONstringify(ArrayOf(e[i].shortcuts))
     /\ o.saved => /\ e # <<>>
                   /\ e[Len(e)].shortcuts = LoadReturn'
                   /\ e[Len(e)].stored = stored'

AbsentTargetCall ==
  /\ StoreCall
  /\ lastOp'.op \in {"updateLabel", "remove"}
  /\ FindIndex(LoadReturn, lastOp'.target) = 0

\* C15 as stated: updateLabel and remove on a target that has no record
\* return false, attempt no write, emit no notification and leave the cache
\* and the persisted sequence unchanged.
C15_Original ==
  [][AbsentTargetCall
       => /\ ~lastOp'.ret /\ ~lastOp'.threw
          /\ lastOp'.writes = 0
          /\ lastOp'.emitted = <<>>
          /\ LoadReturn' = LoadReturn
          /\ stored' = stored]_vars

\* C15 amended: updateLabel and remove on a target that has no record return
\* false and leave what load() returns unchanged; they attempt no write,
\* emit no notification and leave the stored value unchanged, except as the
\* first call of an instance whose stored value is not parseable: then the
\* write of the empty sequence is attempted once and, when it succeeds, the
\* stored value becomes the empty sequence and one notification carries it.
C15_AbsentTargetFails ==
  [][AbsentTargetCall
       => /\ ~lastOp'.ret /\ ~lastOp'.threw
          /\ LoadReturn' = LoadReturn
          /\ IF LoadsUnparseable
             THEN /\ lastOp'.writes = 1
                  /\ lastOp'.emitted = (IF lastOp'.writeOk THEN <<EmptyEvent>> ELSE <<>>)
                  /\ stored' = (IF lastOp'.writeOk THEN EmptyArrayText ELSE stored)
             ELSE /\ lastOp'.writes = 0
                  /\ lastOp'.emitted = <<>>
                  /\ stored' = stored]_vars

\* remove of a target that has no record, in a store that holds a record
C15_Witness ==
  /\ lastOp.op = "remove" /\ ~lastOp.ret
  /\ lastOp.writes = 0
  /\ cache.items # <<>>
  /\ stored.items = cache.items
  /\ FindIndex(cache.items, lastOp.target) = 0

\* C16: importData of a text that is not JSON returns false without
\* throwing, and the cache, the stored value and the emitted notifications
\* are as before the call.
C16_UnparseableImport ==
  [][(StoreCall /\ lastOp'.op = "importData" /\ lastOp'.text = NotJson)
       => /\ ~lastOp'.ret /\ ~lastOp'.threw
          /\ cache' = cache
          /\ stored' = stored
          /\ lastOp'.writes = 0
          /\ lastOp'.emitted = <<>>]_vars

\* an unparseable import into a store that holds a record
C16_Witness ==
  /\ lastOp.op = "importData" /\ lastOp.text = NotJson /\ ~lastOp.ret
  /\ stored.kind = "array" /\ stored.items # <<>>
  /\ cache.items = stored.items

\* C20 as stated: getStorageInfo, also as the first call of an instance
\* whose stored value is missing or unparseable, writes nothing to the
\* persisted store and emits no notification.
C20_Original ==
  [][(StoreCall /\ lastOp'.op = "getStorageInfo")
       => /\ stored' = stored
          /\ lastOp'.emitted = <<>>]_vars

\* C20 amended: getStorageInfo writes nothing to the persisted store and
\* emits no notification, except as the first call of an instance whose
\* stored value is not parseable: then its load() persists the empty
\* sequence and emits one notification carrying it, when the write succeeds.
C20_StorageInfoEffects ==
  [][(StoreCall /\ lastOp'.op = "getStorageInfo")
       => IF LoadsUnparseable /\ lastOp'.writeOk
          THEN /\ stored' = EmptyArrayText
               /\ lastOp'.emitted = <<EmptyEvent>>
          ELSE /\ stored' = stored
               /\ lastOp'.emitted = <<>>]_vars

\* getStorageInfo as the first call over an unparseable stored value
C20_Witness ==
  /\ lastOp.op = "getStorageInfo"
  /\ lastOp.writes = 1 /\ lastOp.writeOk
  /\ Len(lastOp.emitted) = 1
  /\ stored = EmptyArrayText

\* the step is a call of toggle, of remove
ToggleCall == lastOp'.op = "toggle" /\ (Toggle \/ ToggleAgain)
RemoveCall == lastOp'.op = "remove" /\ Remove

\* the record that toggle(target, true, title) creates in a store of n records
CreatedRecord(r, target, title, n) ==
  /\ r.kind = "object"
  /\ r.id = S(ShortcutPrefix \o target.s)
  /\ r.label = S(generateDefaultLabel(IF title = Undef THEN S(<<>>) ELSE title))
  /\ (title = AlphaBeta => r.label = S(<<"A", "B">>))
  /\ r.enabled = B(TRUE)
  /\ r.visible = B(TRUE)
  /\ r.action = [present |-> TRUE, type |-> S(ModalType), target |-> target]
  /\ r.position = N(n)

\* C12: toggle(target, true, title) on a target that has no record, in a
\* store of n records, creates exactly one record with id "shortcut-"+target,
\* the default label of the title, enabled and visible true and action
\* {"modal", target}; after the save it is the last record, at position n.
C12_ToggleCreatesLast ==
  [][(ToggleCall /\ lastOp'.enabled /\ lastOp'.saved
        /\ FindIndex(LoadReturn, lastOp'.target) = 0)
       => LET n == Len(LoadReturn)
          IN /\ Len(LoadReturn') = n + 1
             /\ CreatedRecord(LoadReturn'[n + 1], lastOp'.target, lastOp'.text, n)]_vars

\* C13: toggle(target, enabled) on a target that has a record changes only
\* that record's enabled and updated_at; the number and order of the
\* records and every other field of every record stay as they were.
C13_ToggleExistingFrame ==
  [][(ToggleCall /\ lastOp'.saved /\ FindIndex(LoadReturn, lastOp'.target) # 0)
       => LET before == LoadReturn
              after == LoadReturn'
              i == FindIndex(before, lastOp'.target)
          IN /\ Len(after) = Len(before)
             /\ \A k \in 1..Len(before) :
                  IF k = i
                  THEN after[k] = [before[k] EXCEPT !.enabled = B(lastOp'.enabled),
                                                    !.updated_at = after[k].updated_at]
                  ELSE after[k] = before[k]]_vars

\* C14: toggle(target, false) on a target that has no record returns true
\* when the write succeeds and leaves the sequence that load() returns as it
\* was before the call.
C14_ToggleOffAbsent ==
  [][(ToggleCall /\ ~lastOp'.enabled /\ lastOp'.writeOk
        /\ FindIndex(LoadReturn, lastOp'.target) = 0)
       => /\ lastOp'.ret
          /\ LoadReturn' = LoadReturn]_vars

\* equal but for position
SameButPosition(a, b) == [a EXCEPT !.position = Undef] = [b EXCEPT !.position = Undef]

\* C17: remove(target) on a target that has a record returns true when the
\* write succeeds; afterwards getShortcut(target) is absent, the remaining
\* records keep their order and every field but position, and the positions
\* are 0..n-2.
C17_RemoveDeletes ==
  [][(RemoveCall /\ lastOp'.writeOk /\ FindIndex(LoadReturn, lastOp'.target) # 0)
       => LET before == LoadReturn
              after == LoadReturn'
              i == FindIndex(before, lastOp'.target)
              rest == SubSeq(before, 1, i - 1) \o SubSeq(before, i + 1, Len(before))
          IN /\ lastOp'.ret
             /\ FindIndex(after, lastOp'.target) = 0
             /\ Len(after) = Len(rest)
             /\ \A k \in 1..Len(rest) :
                  /\ Len(after) = Len(rest) => SameButPosition(after[k], rest[k])
                  /\ Len(after) = Len(rest) => after[k].position = N(k - 1)]_vars

\* the first characters of the words of s: the characters that are no
\* whitespace and stand first or after whitespace
WordInitials(s) ==
  LET starts == {i \in 1..Len(s) : ~IsSpace(s[i]) /\ (i = 1 \/ IsSpace(s[i - 1]))}
      nth(k) == CHOOSE i \in starts : Cardinality({j \in starts : j < i}) = k - 1
  IN [k \in 1..Cardinality(starts) |-> s[nth(k)]]

\* C23: generateDefaultLabel(title) returns the first characters of the
\* whitespace-separated words of the title, uppercased, concatenated and
\* truncated to 3 characters, "XX" when that is empty (empty, missing or
\* whitespace-only title), and always 1 to 3 characters.
C23_DefaultLabel ==
  probe.fn = "generateDefaultLabel" =>
    LET title == IF probe.arg.t = "string" THEN probe.arg.s ELSE <<>>
        letters == ToUpperCase(WordInitials(title))
        short == IF Len(letters) > 3 THEN SubSeq(letters, 1, 3) ELSE letters
    IN /\ probe.out = (IF short = <<>> THEN XX ELSE short)
       /\ Len(probe.out) \in 1..3
       /\ probe.arg = MissionControlPanel => probe.out = <<"M", "C", "P">>
       /\ probe.arg = S(<<>>) => probe.out = XX

\* a title of four words, cut to the initials of the first three
C23_Witness ==
  /\ probe.fn = "generateDefaultLabel"
  /\ probe.arg = S(<<" ", "c", " ", "c", " ", "c", " ">>)
  /\ probe.out = <<"C", "C", "C">>

\* C28: in every state reached by open and close calls with non-empty ids,
\* previousModalId is absent (null).
C28_PreviousNeverSet ==
  previousModalId = Null

\* the second session of a tracker: a modal was active before this one, and
\* previousModalId does not name it
C28_Witness ==
  /\ modalOp.op = "open" /\ modalOp.ret /\ modalOp.after = "close"
  /\ activeModalId = S(<<"m", "1">>)
  /\ previousModalId = Null
  /\ now > 0

\* C29: importData(exportData()) returns true and leaves the sequence that
\* load() returns equal, record by record and in every field, to the
\* sequence before the call.
C29_ExportImportRoundTrip ==
  [][(StoreCall /\ lastOp'.op = "importExported" /\ lastOp'.writeOk)
       => /\ lastOp'.ret
          /\ LoadReturn' = LoadReturn]_vars

\* the sequence has a record of the target
HasRecord(seq, target) == FindIndex(seq, target) # 0

\* C30: with both instances loaded, after instance A successfully toggles
\* a target on and instance B then successfully toggles a different target
\* on, the persisted sequence has records of both targets.
C30_NoLostUpdate ==
  [][(/\ tab.by = "A" /\ tab.loaded
      /\ lastOp.op = "toggle" /\ lastOp.enabled /\ lastOp.saved
      /\ tab'.by = "B"
      /\ lastOp'.op = "toggle" /\ lastOp'.enabled /\ lastOp'.saved
      /\ lastOp'.target # lastOp.target)
       => /\ HasRecord(stored'.items, lastOp.target)
          /\ HasRecord(stored'.items, lastOp'.target)]_vars

\* C24: once the theme is initialized and a theme variable of the document
\* root has been overridden, opsTheme.init() sets all four variables to the
\* Terminal theme values again.
C24_InitResetsTheme ==
  [][(ThemeInit /\ theme.initialized /\ theme.style # CSS_VARIABLES)
       => theme'.style = CSS_VARIABLES]_vars

\* C25: with an object or nothing under the storage key, once a container
\* has made an effective expand, collapse or toggle call, a container newly
\* constructed with its id and storage key starts with its expanded value,
\* whatever the defaultExpanded; expand() on an expanded container and
\* collapse() on a collapsed one change nothing and dispatch no event.
C25_StatePersists ==
  [][/\ (coll'.op.name = "construct" /\ coll.acted
            /\ coll.given \in {"missing", "object"})
          => coll'.fresh.expanded = coll.first.expanded
     /\ ((coll'.op.name = "expand" /\ Truthy(coll.first.expanded))
            \/ (coll'.op.name = "collapse" /\ ~Truthy(coll.first.expanded)))
          => /\ coll'.item = coll.item
             /\ coll'.first = coll.first
             /\ coll'.op.event = "none"]_vars

\* a top-level call on the modal system
SystemCall ==
  \/ sys'.call.op = "register" /\ Register
  \/ sys'.call.op = "open" /\ SystemOpen
  \/ sys'.call.op = "closeActive" /\ CloseActive
  \/ sys'.call.op = "escape" /\ EscapeKey
  \/ sys'.call.op = "backdrop" /\ BackdropClick
  \/ sys'.call.op = "unregister" /\ Unregister
  \/ sys'.call.op = "destroy" /\ Destroy

TrackerUnchanged ==
  UNCHANGED <<activeModalId, activeModuleId, openedAt, previousModalId,
              isTransitioning>>

Displayed == sys.overlay.display = "flex"

\* C21: ModalSystem.open of an id that is not registered, or while a modal
\* is displayed, changes neither the tracker nor the active modal, the
\* overlay or the registry, runs no onOpen handler and dispatches no
\* modal-opened notification.
C21_RefusedOpen ==
  [][(sys'.call.op = "open" /\ SystemOpen
        /\ (sys'.call.arg \notin DOMAIN sys.modals \/ Displayed))
       => /\ TrackerUnchanged
          /\ sys'.modals = sys.modals
          /\ sys'.activeModal = sys.activeModal
          /\ sys'.overlay = sys.overlay
          /\ sys'.call.handlers = <<>>
          /\ sys'.call.events = <<>>]_vars

\* an open of a registered modal was refused while another one was displayed
C21_Witness ==
  /\ sys.call.op = "open"
  /\ sys.call.arg \in DOMAIN sys.modals
  /\ sys.activeModal # NoModal
  /\ sys.activeModal.id # sys.call.arg
  /\ sys.call.events = <<>>

\* the call runs closeActive
ClosesActive ==
  \/ sys'.call.op \in {"closeActive", "backdrop", "destroy"}
  \/ sys'.call.op = "escape" /\ isActive
  \/ /\ sys'.call.op = "unregister"
     /\ sys'.call.arg \in DOMAIN sys.modals
     /\ sys.modals[sys'.call.arg] = sys.activeModal

\* the call is an open that is accepted
OpenAccepted ==
  /\ sys'.call.op = "open"
  /\ sys'.call.arg \in DOMAIN sys.modals
  /\ ~Displayed

C26_TrackerAgrees ==
  /\ (sys.activeModal # NoModal) <=> isActive
  /\ sys.activeModal # NoModal => sys.activeModal.id = activeModalId

\* the id of the active modal has been registered again, to another Modal
C26_Witness ==
  /\ sys.activeModal # NoModal
  /\ sys.activeModal.id \in DOMAIN sys.modals
  /\ sys.modals[sys.activeModal.id] # sys.activeModal

\* C27: an onClose handler or modal-closed listener that opens a registered
\* modal while closeActive runs has the open accepted, and that modal is
\* the active modal when closeActive returns.
C27_OpenWhileClosing ==
  [][(CloseActiveReentered /\ sys.activeModal # NoModal
        /\ Len(sys'.call.reentry) = 1
        /\ sys'.call.reentry[1].modalId \in DOMAIN sys.modals)
       => /\ sys'.call.reentry[1].accepted
          /\ sys'.activeModal = sys.modals[sys'.call.reentry[1].modalId]]_vars

====
